---- MODULE Spec2Model ----
(***************************************************************************)
(* Avro row-block decoding into Arrow column buffers, as implemented in    *)
(* bigquery_storage/google/cloud/bigquery_storage_v1beta1/                 *)
(*   _avro_to_arrow.py   (readers, bit arrays, _avro_df over long/double/  *)
(*                        boolean, the generated message_to_buffers,       *)
(*                        _copy_bytes)                                     *)
(*   _pandas_helpers.py  (_avro_df over string/string/long/string/long).   *)
(*                                                                         *)
(* The readers are numba nopython functions: indexing is not bounds        *)
(* checked, negative indices wrap around once, integers are int64 and      *)
(* numpy.empty returns uninitialised memory.                               *)
(***************************************************************************)
EXTENDS Integers, Sequences, FiniteSets

VARIABLES
    plan,       \* the schema's field types, in order: "long", "double", "boolean", "string"
    row_count,  \* message.avro_rows.row_count
    block,      \* message.avro_rows.serialized_binary_rows, a sequence of bytes
    beyond,     \* the readable memory that follows block (what an unchecked read past it finds)
    call,       \* call[c]: the locals and buffers of decode call c
    arg,        \* the argument of a call made outside a decode: of a bare _read_long,
                \* [v |-> int64 bits, p |-> position]; of generate_avro_to_arrow_parser,
                \* [avro_schema |-> the type declarations of the fields]
    ret         \* <<>> before that call returns, <<its result>> after

vars == <<plan, row_count, block, beyond, call, arg, ret>>

(***************************************************************************)
(* Bytes and int64 values.  An int64 is its 64 two's-complement bits,      *)
(* bit 0 the least significant.                                            *)
(***************************************************************************)
Width == 64

Bit(x, k) == (x \div (2 ^ k)) % 2

\* a | b and a & b on uint8
ByteOr(a, b) ==
    LET RECURSIVE Go(_)
        Go(k) == IF k = 8 THEN 0
                 ELSE (IF Bit(a, k) = 1 \/ Bit(b, k) = 1 THEN 2 ^ k ELSE 0) + Go(k + 1)
    IN Go(0)

ByteAnd(a, b) ==
    LET RECURSIVE Go(_)
        Go(k) == IF k = 8 THEN 0
                 ELSE (IF Bit(a, k) = 1 /\ Bit(b, k) = 1 THEN 2 ^ k ELSE 0) + Go(k + 1)
    IN Go(0)

Zero64 == [j \in 0..(Width - 1) |-> 0]

\* n | (g << shift) on int64, g a value of 7 bits; bits shifted past bit 63 are lost
OrShl(n, g, shift) ==
    [j \in 0..(Width - 1) |->
        IF j >= shift /\ j < shift + 7 /\ Bit(g, j - shift) = 1 THEN 1 ELSE n[j]]

\* n >> 1 on a signed int64: the sign bit is shifted in
Sar1(n) == [j \in 0..(Width - 1) |-> IF j < Width - 1 THEN n[j + 1] ELSE n[Width - 1]]

\* -(n & 1) on int64: 0, or all ones
NegLowBit(n) == [j \in 0..(Width - 1) |-> n[0]]

Xor64(a, b) == [j \in 0..(Width - 1) |-> (a[j] + b[j]) % 2]

\* The integer an int64 holds, for the values the decoder computes with
\* (tags, lengths, positions), which stay within 31 bits.
AsInt(v) ==
    LET RECURSIVE Low(_)
        Low(j) == IF j = 31 THEN 0
                  ELSE (IF v[j] # v[Width - 1] THEN 2 ^ j ELSE 0) + Low(j + 1)
    IN IF v[Width - 1] = 1 THEN -1 - Low(0) ELSE Low(0)

\* The int64 of a small integer
ToInt64(x) ==
    [j \in 0..(Width - 1) |->
        IF j >= 31 THEN (IF x < 0 THEN 1 ELSE 0)
        ELSE IF x < 0 THEN 1 - Bit(-1 - x, j) ELSE Bit(x, j)]

(***************************************************************************)
(* block[index] in nopython mode: a negative index wraps around once, and  *)
(* no bounds are checked.  A read past the block finds the memory that     *)
(* follows it (beyond), or faults where nothing is mapped.                 *)
(***************************************************************************)
Load(blk, index) ==
    LET a == IF index < 0 THEN index + Len(blk) ELSE index
    IN IF a >= 0 /\ a < Len(blk)
         THEN [ok |-> TRUE, byte |-> blk[a + 1], oob |-> FALSE]
       ELSE IF a >= Len(blk) /\ a < Len(blk) + Len(beyond)
         THEN [ok |-> TRUE, byte |-> beyond[a - Len(blk) + 1], oob |-> TRUE]
       ELSE [ok |-> FALSE, byte |-> 0, oob |-> TRUE]

\* What a reader gives back: ok = FALSE when a read faulted; oob = TRUE when a
\* read went outside the block.
Faulted == [ok |-> FALSE, position |-> 0, value |-> Zero64, oob |-> TRUE]

\* _read_long: the while loop, with b the byte last read
RECURSIVE ReadLongLoop(_, _, _, _, _, _)
ReadLongLoop(position, b, n, shift, blk, oob) ==
    IF ByteAnd(b, 128) # 0
      THEN LET ld == Load(blk, position + 1)
           IN IF ~ld.ok THEN Faulted
              ELSE ReadLongLoop(position + 1, ld.byte,
                                OrShl(n, ByteAnd(ld.byte, 127), shift),
                                shift + 7, blk, oob \/ ld.oob)
      ELSE [ok |-> TRUE, position |-> position + 1,
            value |-> Xor64(Sar1(n), NegLowBit(n)), oob |-> oob]

_read_long(position, blk) ==
    LET ld == Load(blk, position)
    IN IF ~ld.ok THEN Faulted
       ELSE ReadLongLoop(position, ld.byte,
                         OrShl(Zero64, ByteAnd(ld.byte, 127), 0), 7, blk, ld.oob)

\* _read_double: eight bytes, least significant first.  The uint64 the shifts
\* and ORs build is carried as its eight base-256 digits <<b0, ..., b7>>.
_read_double(position, blk) ==
    LET ld == [j \in 1..8 |-> Load(blk, position + j - 1)]
    IN IF \E j \in 1..8 : ~ld[j].ok THEN Faulted
       ELSE [ok |-> TRUE, position |-> position + 8,
             value |-> [j \in 1..8 |-> ld[j].byte],
             oob |-> \E j \in 1..8 : ld[j].oob]

\* _read_boolean taking only the byte 1 for true
_read_boolean_one(position, blk) ==
    LET ld == Load(blk, position)
    IN IF ~ld.ok THEN Faulted
       ELSE [ok |-> TRUE, position |-> position + 1,
             value |-> IF ld.byte = 1 THEN 255 ELSE 0, oob |-> ld.oob]

\* _read_boolean: 0xff for a nonzero byte, 0 otherwise
_read_boolean(position, blk) ==
    LET ld == Load(blk, position)
    IN IF ~ld.ok THEN Faulted
       ELSE [ok |-> TRUE, position |-> position + 1,
             value |-> IF ld.byte # 0 THEN 255 ELSE 0, oob |-> ld.oob]

(***************************************************************************)
(* Bit arrays and the rotating null bit.                                   *)
(***************************************************************************)
\* _make_bitarray without the byte of the last row_count % 8 rows
_make_bitarray_short(row_count_) == [b \in 1..(row_count_ \div 8) |-> 0]

_make_bitarray(row_count_) ==
    LET extra_byte == IF (row_count_ % 8) # 0 THEN 1 ELSE 0
    IN [b \in 1..((row_count_ \div 8) + extra_byte) |-> 0]

\* _rotate_nullbit restarting at the high bit (the big-endian order of its TODO)
_rotate_nullbit_high(nullbit) ==
    LET shifted == (nullbit * 2) % 256
    IN IF shifted = 0 THEN 128 ELSE shifted

\* _rotate_nullbit without the restart at the low bit
_rotate_nullbit_nowrap(nullbit) == (nullbit * 2) % 256

_rotate_nullbit(nullbit) ==
    LET shifted == (nullbit * 2) % 256
    IN IF shifted = 0 THEN 1 ELSE shifted

\* _pandas_helpers.py carries its own copies of the two
_make_nullmask(row_count_) ==
    LET extra_byte == IF (row_count_ % 8) # 0 THEN 1 ELSE 0
    IN [b \in 1..((row_count_ \div 8) + extra_byte) |-> 0]

_rotate_nullmask(nullmask) ==
    LET shifted == (nullmask * 2) % 256
    IN IF shifted = 0 THEN 1 ELSE shifted

\* array[nullbyte] = array[nullbyte] | bits
OrInto(array, nullbyte, bits) ==
    [array EXCEPT ![nullbyte + 1] = ByteOr(@, bits)]

(***************************************************************************)
(* One decode call.  The string fields are the ones _pandas_helpers._avro_df *)
(* decodes; long, double and boolean fields are decoded as in              *)
(* _avro_to_arrow._avro_df and the generated message_to_buffers.           *)
(***************************************************************************)
HasString(p) == \E k \in 1..Len(p) : p[k] = "string"

ZeroDouble == [j \in 1..8 |-> 0]

\* The locals and buffers after the prologue of the decode function.  A slot of
\* a numpy.empty array holds no value of the program's until it is written:
\* written[k] and recorded[k] name the slots that were.  tags[k], lens[k] and
\* bools[k] note, row by row, what was read for field k: the union tag, the
\* string length, and the boolean's value byte with the number of bytes the
\* value took.
NewCall(p, rc) ==
    [pc |-> "row", position |-> 0, nullbit |-> 0, i |-> 0, f |-> 0,
     nullmask |-> [k \in 1..Len(p) |->
                     IF HasString(p) THEN _make_nullmask(rc) ELSE _make_bitarray(rc)],
     data |-> [k \in 1..Len(p) |->
                 CASE p[k] = "long" -> [r \in 1..rc |-> 0]
                   [] p[k] = "double" -> [r \in 1..rc |-> ZeroDouble]
                   [] p[k] = "boolean" -> _make_bitarray(rc)
                   [] OTHER -> <<>>],
     written |-> [k \in 1..Len(p) |-> {}],
     offsets |-> [k \in 1..Len(p) |->
                    IF p[k] = "string" THEN [r \in 1..(rc + 1) |-> 0] ELSE <<>>],
     input_offsets |-> [k \in 1..Len(p) |->
                          IF p[k] = "string" THEN [r \in 1..(rc * 2) |-> 0] ELSE <<>>],
     recorded |-> [k \in 1..Len(p) |-> {}],
     bytes |-> [k \in 1..Len(p) |-> <<>>],
     pending |-> {},
     tags |-> [k \in 1..Len(p) |-> <<>>],
     lens |-> [k \in 1..Len(p) |-> <<>>],
     bools |-> [k \in 1..Len(p) |-> <<>>],
     oob |-> FALSE]

\* An unchecked read hit unmapped memory: the call dies, nothing is returned.
Fault(s) == [s EXCEPT !.pc = "fault", !.oob = TRUE]

\* The end of one field's code: on to the next field, or to the next row.
EndField(s) ==
    IF s.f = Len(plan)
      THEN [s EXCEPT !.i = @ + 1, !.f = 0, !.pc = "row"]
      ELSE [s EXCEPT !.f = @ + 1]

\* position, union_type = _read_long(position, block), with the tag noted
AfterTag(s, t) ==
    [s EXCEPT !.position = t.position,
              !.tags[s.f] = Append(@, AsInt(t.value)),
              !.oob = @ \/ t.oob]

LongStep(s) ==
    LET k == s.f
        nullbyte == s.i \div 8
        t == _read_long(s.position, block)
        s1 == AfterTag(s, t)
        v == _read_long(t.position, block)
    IN IF ~t.ok THEN Fault(s)
       ELSE IF t.value # Zero64
         THEN IF ~v.ok THEN Fault(s1)
              ELSE EndField([s1 EXCEPT
                     !.nullmask[k] = OrInto(@, nullbyte, s.nullbit),
                     !.position = v.position,
                     !.data[k][s.i + 1] = AsInt(v.value),
                     !.written[k] = @ \cup {s.i + 1},
                     !.oob = @ \/ v.oob])
       ELSE EndField(s1)

DoubleStep(s) ==
    LET k == s.f
        nullbyte == s.i \div 8
        t == _read_long(s.position, block)
        s1 == AfterTag(s, t)
        v == _read_double(t.position, block)
    IN IF ~t.ok THEN Fault(s)
       ELSE IF t.value # Zero64
         THEN IF ~v.ok THEN Fault(s1)
              ELSE EndField([s1 EXCEPT
                     !.nullmask[k] = OrInto(@, nullbyte, s.nullbit),
                     !.position = v.position,
                     !.data[k][s.i + 1] = v.value,
                     !.written[k] = @ \cup {s.i + 1},
                     !.oob = @ \/ v.oob])
       ELSE EndField(s1)

BooleanStep(s) ==
    LET k == s.f
        nullbyte == s.i \div 8
        t == _read_long(s.position, block)
        s1 == AfterTag(s, t)
        v == _read_boolean(t.position, block)
    IN IF ~t.ok THEN Fault(s)
       ELSE IF t.value # Zero64
         THEN IF ~v.ok THEN Fault(s1)
              ELSE EndField([s1 EXCEPT
                     !.nullmask[k] = OrInto(@, nullbyte, s.nullbit),
                     !.position = v.position,
                     !.data[k] = OrInto(@, nullbyte, ByteAnd(v.value, s.nullbit)),
                     !.bools[k] = Append(@, [byte |-> Load(block, t.position).byte,
                                             consumed |-> v.position - t.position]),
                     !.oob = @ \/ v.oob])
       ELSE EndField([s1 EXCEPT !.bools[k] = Append(@, [byte |-> 0, consumed |-> 0])])

\* A string field: the length is read and the byte range noted for a later copy;
\* the field's null mask is not touched.
StringStep(s) ==
    LET k == s.f
        input_offset == s.i * 2
        t == _read_long(s.position, block)
        s1 == AfterTag(s, t)
        v == _read_long(t.position, block)
        strlen == AsInt(v.value)
    IN IF ~t.ok THEN Fault(s)
       ELSE IF t.value = Zero64
         THEN EndField([s1 EXCEPT
                !.offsets[k][s.i + 2] = s.offsets[k][s.i + 1],
                !.lens[k] = Append(@, 0)])
       ELSE IF ~v.ok THEN Fault(s1)
       ELSE EndField([s1 EXCEPT
              !.input_offsets[k][input_offset + 1] = v.position,
              !.position = v.position + strlen,
              !.input_offsets[k][input_offset + 2] = v.position + strlen,
              !.offsets[k][s.i + 2] = s.offsets[k][s.i + 1] + strlen,
              !.recorded[k] = @ \cup {s.i + 1},
              !.lens[k] = Append(@, strlen),
              !.oob = @ \/ v.oob])

(***************************************************************************)
(* The return of the decode function.  The slots of the numpy.empty data   *)
(* arrays that no row wrote leave the function with whatever the memory    *)
(* held: one of UninitLongs, UninitDoubles.                                *)
(***************************************************************************)
UninitLongs == <<0, 85>>

UninitDoubles == <<ZeroDouble, [j \in 1..8 |-> 85]>>

UninitStarts == {0, 85}

Unwritten(s) ==
    {kr \in (1..Len(plan)) \X (1..row_count) :
        plan[kr[1]] \in {"long", "double"} /\ kr[2] \notin s.written[kr[1]]}

ReturnBuffers(s, fill) ==
    [s EXCEPT !.pc = "returned",
              !.data = [k \in 1..Len(plan) |->
                          IF plan[k] \in {"long", "double"}
                            THEN [r \in 1..row_count |->
                                    IF r \in s.written[k] THEN s.data[k][r]
                                    ELSE IF plan[k] = "long" THEN UninitLongs[fill[<<k, r>>]]
                                    ELSE UninitDoubles[fill[<<k, r>>]]]
                            ELSE s.data[k]]]

(***************************************************************************)
(* The copy of the string bytes.  _copy_bytes is the source's; the code    *)
(* that allocates the data buffer and calls it for each row is not in the  *)
(* source files and follows the design's second pass.                      *)
(***************************************************************************)
\* output_bytes[index] = byte, unchecked: a store outside the buffer lands in
\* other memory (stray) or faults (wild = TRUE)
Store(output_bytes, index, byte, wild) ==
    LET a == IF index < 0 THEN index + Len(output_bytes) ELSE index
    IN IF a >= 0 /\ a < Len(output_bytes)
         THEN [ok |-> TRUE, bytes |-> [output_bytes EXCEPT ![a + 1] = byte]]
         ELSE [ok |-> ~wild, bytes |-> output_bytes]

RECURSIVE CopyLoop(_, _, _, _, _, _)
CopyLoop(input_bytes, input_pos, input_end, output_bytes, output_pos, wild) ==
    IF input_pos < input_end
      THEN LET ld == Load(input_bytes, input_pos)
               st == Store(output_bytes, output_pos, ld.byte, wild)
           IN IF ~ld.ok \/ ~st.ok THEN [ok |-> FALSE, bytes |-> output_bytes]
              ELSE CopyLoop(input_bytes, input_pos + 1, input_end, st.bytes,
                            output_pos + 1, wild)
      ELSE [ok |-> TRUE, bytes |-> output_bytes]

_copy_bytes(input_bytes, input_start, output_bytes, output_start, strlen, wild) ==
    CopyLoop(input_bytes, input_start, input_start + strlen, output_bytes,
             output_start, wild)

StringColumns == {k \in 1..Len(plan) : plan[k] = "string"}

\* The data buffers of the string columns, offsets[row_count] bytes each; a
\* negative size is refused by the allocator.
AllocateBytes(s) ==
    IF \E k \in StringColumns : s.offsets[k][row_count + 1] < 0
      THEN [s EXCEPT !.pc = "fault"]
      ELSE [s EXCEPT !.pc = "copy",
                     !.bytes = [k \in 1..Len(plan) |->
                                  IF k \in StringColumns
                                    THEN [b \in 1..s.offsets[k][row_count + 1] |-> 0]
                                    ELSE <<>>],
                     !.pending = StringColumns \X (1..row_count)]

\* The copy of row r (1-based) of column k; start is the recorded start of the
\* row's bytes in the block.
CopyRowBytes(s, k, r, start, wild) ==
    LET strlen == s.offsets[k][r + 1] - s.offsets[k][r]
        res == _copy_bytes(block, start, s.bytes[k], s.offsets[k][r], strlen, wild)
    IN IF ~res.ok THEN [s EXCEPT !.pc = "fault"]
       ELSE [s EXCEPT !.bytes[k] = res.bytes,
                      !.pending = @ \ {<<k, r>>}]

(***************************************************************************)
(* The actions of decode call c.                                           *)
(***************************************************************************)
Inputs == <<plan, row_count, block, beyond>>

\* for i in range(row_count): nullbit = _rotate_nullbit(nullbit); nullbyte = i // 8
\* (a schema of no fields leaves the loop body at that)
RotateRow(c) ==
    /\ call[c].pc = "row"
    /\ call[c].i < row_count
    /\ call' = [call EXCEPT ![c] =
                  LET rotated == [@ EXCEPT !.nullbit = IF HasString(plan) THEN _rotate_nullmask(@)
                                                       ELSE _rotate_nullbit(@)]
                  IN IF Len(plan) = 0 THEN [rotated EXCEPT !.i = @ + 1]
                     ELSE [rotated EXCEPT !.f = 1, !.pc = "field"]]
    /\ UNCHANGED <<Inputs, arg, ret>>

FieldLong(c) ==
    /\ call[c].pc = "field"
    /\ plan[call[c].f] = "long"
    /\ call' = [call EXCEPT ![c] = LongStep(@)]
    /\ UNCHANGED <<Inputs, arg, ret>>

FieldDouble(c) ==
    /\ call[c].pc = "field"
    /\ plan[call[c].f] = "double"
    /\ call' = [call EXCEPT ![c] = DoubleStep(@)]
    /\ UNCHANGED <<Inputs, arg, ret>>

FieldBoolean(c) ==
    /\ call[c].pc = "field"
    /\ plan[call[c].f] = "boolean"
    /\ call' = [call EXCEPT ![c] = BooleanStep(@)]
    /\ UNCHANGED <<Inputs, arg, ret>>

FieldString(c) ==
    /\ call[c].pc = "field"
    /\ plan[call[c].f] = "string"
    /\ call' = [call EXCEPT ![c] = StringStep(@)]
    /\ UNCHANGED <<Inputs, arg, ret>>

\* return ((nullmask, data), ...) after the last row
Return(c) ==
    /\ call[c].pc = "row"
    /\ call[c].i = row_count
    /\ \E fill \in [Unwritten(call[c]) -> 1..2] :
          call' = [call EXCEPT ![c] = ReturnBuffers(@, fill)]
    /\ UNCHANGED <<Inputs, arg, ret>>

Allocate(c) ==
    /\ call[c].pc = "returned"
    /\ StringColumns # {}
    /\ call' = [call EXCEPT ![c] = AllocateBytes(@)]
    /\ UNCHANGED <<Inputs, arg, ret>>

CopyRow(c) ==
    /\ call[c].pc = "copy"
    /\ \E kr \in call[c].pending, wild \in BOOLEAN :
          \E start \in (IF kr[2] \in call[c].recorded[kr[1]]
                          THEN {call[c].input_offsets[kr[1]][2 * kr[2] - 1]}
                          ELSE UninitStarts) :
             call' = [call EXCEPT ![c] = CopyRowBytes(@, kr[1], kr[2], start, wild)]
    /\ UNCHANGED <<Inputs, arg, ret>>

Assemble(c) ==
    /\ call[c].pc = "copy"
    /\ call[c].pending = {}
    /\ call' = [call EXCEPT ![c].pc = "done"]
    /\ UNCHANGED <<Inputs, arg, ret>>

Next ==
    \/ \E c \in DOMAIN call : RotateRow(c)
    \/ \E c \in DOMAIN call : FieldLong(c)
    \/ \E c \in DOMAIN call : FieldDouble(c)
    \/ \E c \in DOMAIN call : FieldBoolean(c)
    \/ \E c \in DOMAIN call : FieldString(c)
    \/ \E c \in DOMAIN call : Return(c)
    \/ \E c \in DOMAIN call : Allocate(c)
    \/ \E c \in DOMAIN call : CopyRow(c)
    \/ \E c \in DOMAIN call : Assemble(c)

(***************************************************************************)
(* The wire format of a block: per row and field a zigzag varint union tag *)
(* (0 for null), then the value.  Used to build the well-formed blocks the *)
(* decoder is run on.                                                      *)
(***************************************************************************)
\* (v << 1) ^ (v >> 63)
ZigZag(v) ==
    [j \in 0..(Width - 1) |->
        ((IF j = 0 THEN 0 ELSE v[j - 1]) + v[Width - 1]) % 2]

\* The 7-bit group g (0-based) of n
Group(n, g) ==
    LET RECURSIVE Go(_)
        Go(t) == IF t = 7 \/ 7 * g + t >= Width THEN 0
                 ELSE n[7 * g + t] * (2 ^ t) + Go(t + 1)
    IN Go(0)

\* The varint of the unsigned n: 7 bits per byte, low group first, 0x80 on all
\* bytes but the last
Varint(n) ==
    LET set == {j \in 0..(Width - 1) : n[j] = 1}
        top == IF set = {} THEN 0 ELSE CHOOSE j \in set : \A h \in set : h <= j
        groups == (top \div 7) + 1
    IN [g \in 1..groups |-> Group(n, g - 1) + (IF g < groups THEN 128 ELSE 0)]

EncodeLong(v) == Varint(ZigZag(v))

\* A field value is <<>> for null and <<x>> for x: an integer (long), eight
\* bytes (double), TRUE or FALSE (boolean), a sequence of bytes (string).
EncodeField(kind, value) ==
    IF value = <<>> THEN <<0>>
    ELSE <<2>> \o (CASE kind = "long" -> EncodeLong(ToInt64(value[1]))
                     [] kind = "double" -> value[1]
                     [] kind = "boolean" -> IF value[1] THEN <<1>> ELSE <<0>>
                     [] OTHER -> EncodeLong(ToInt64(Len(value[1]))) \o value[1])

RECURSIVE EncodeRow(_, _, _)
EncodeRow(p, row, k) ==
    IF k > Len(p) THEN <<>>
    ELSE EncodeField(p[k], row[k]) \o EncodeRow(p, row, k + 1)

RECURSIVE EncodeBlock(_, _, _)
EncodeBlock(p, rows, r) ==
    IF r > Len(rows) THEN <<>>
    ELSE EncodeRow(p, rows[r], 1) \o EncodeBlock(p, rows, r + 1)

Prefixes(seq) == {SubSeq(seq, 1, n) : n \in 0..Len(seq)}

SeqsUpTo(S, n) == UNION {[1..m -> S] : m \in 0..n}

(***************************************************************************)
(* The inputs.                                                             *)
(***************************************************************************)
MaxRows == 2
MaxLen == 4
MaxBeyond == 1
LongRows == 10
MaxPad == 1

\* The schemas of the two hand-written decoders
EasyScalarsPlan == <<"long", "double", "boolean">>
UsaNamesPlan == <<"string", "string", "long", "string", "long">>

One == <<0, 0, 0, 0, 0, 0, 240, 63>>   \* 0x3FF0000000000000, 1.0

\* The blocks the decoders are run on: a plan, the rows, and the block that
\* encodes them.
Sample(p, rows) == [plan |-> p, rows |-> Len(rows), block |-> EncodeBlock(p, rows, 1)]

EndToEndSample ==
    Sample(<<"long", "string">>,
           << << <<5>>, <<<<104, 105>>>> >>, << <<>>, <<>> >>, << <<-3>>, <<<<>>>> >> >>)

EasyScalarsSample ==
    Sample(EasyScalarsPlan,
           << << <<7>>, <<One>>, <<TRUE>> >>, << <<>>, <<>>, <<FALSE>> >> >>)

UsaNamesSample ==
    Sample(UsaNamesPlan,
           << << <<<<87, 65>>>>, <<<<70>>>>, <<1910>>, <<>>, <<12>> >> >>)

\* LongRows rows of one boolean column, the rows of present holding TRUE
BitmapSample(present) ==
    Sample(<<"boolean">>,
           [r \in 1..LongRows |-> << IF r \in present THEN <<TRUE>> ELSE <<>> >>])

\* LongRows rows of two columns, every value present
WideSample ==
    Sample(<<"long", "boolean">>, [r \in 1..LongRows |-> << <<r>>, <<TRUE>> >>])

Samples ==
    {EndToEndSample, EasyScalarsSample, UsaNamesSample, WideSample}
      \cup {BitmapSample(present) :
              present \in {1..LongRows, {}, {LongRows}, {r \in 1..LongRows : r % 2 = 0}}}

\* A sample block whole or cut short, or any short byte string under a small plan
FuzzPlans == {<<"long">>, <<"boolean">>, <<"string">>, <<"long", "string">>}
FuzzBytes == {0, 1, 2}
BeyondBytes == {0, 2}

\* A string column whose first row declares a negative length
NegativeLengths == {-2, -3}

NegativeLengthBlocks == {<<2>> \o EncodeLong(ToInt64(n)) \o <<0>> : n \in NegativeLengths}

InitInputs ==
    /\ \/ \E smp \in Samples :
             /\ plan = smp.plan
             /\ row_count = smp.rows
             /\ block \in Prefixes(smp.block)
       \/ /\ plan \in FuzzPlans
          /\ row_count \in 0..MaxRows
          /\ block \in SeqsUpTo(FuzzBytes, MaxLen)
       \/ /\ plan = <<"string">>
          /\ row_count \in 1..MaxRows
          /\ block \in NegativeLengthBlocks
    /\ beyond \in SeqsUpTo(BeyondBytes, MaxBeyond)

Init ==
    /\ InitInputs
    /\ call = <<NewCall(plan, row_count)>>
    /\ arg = <<>>
    /\ ret = <<>>

Spec == Init /\ [][Next]_vars

(***************************************************************************)
(* Two decode calls of the same block, each with its own locals and        *)
(* buffers, interleaved field by field.                                    *)
(***************************************************************************)
InitTwo ==
    /\ \E smp \in {EndToEndSample, EasyScalarsSample, UsaNamesSample} :
          /\ plan = smp.plan
          /\ row_count = smp.rows
          /\ block = smp.block
    /\ beyond \in SeqsUpTo(BeyondBytes, MaxBeyond)
    /\ call = <<NewCall(plan, row_count), NewCall(plan, row_count)>>
    /\ arg = <<>>
    /\ ret = <<>>

SpecTwo == InitTwo /\ [][Next]_vars

(***************************************************************************)
(* A bare call of _read_long on the zigzag varint of a value v, placed at  *)
(* position p of a block.                                                  *)
(***************************************************************************)
\* 2^k, 2^k - 1, -2^k and -2^k - 1 as int64, with the minimum -2^63 and the
\* maximum 2^63 - 1 among them, and the two alternating bit patterns
ZigzagValues ==
    {[j \in 0..(Width - 1) |-> IF j = k THEN 1 ELSE 0] : k \in 0..(Width - 2)}
      \cup {[j \in 0..(Width - 1) |-> IF j < k THEN 1 ELSE 0] : k \in 0..(Width - 1)}
      \cup {[j \in 0..(Width - 1) |-> IF j >= k THEN 1 ELSE 0] : k \in 0..(Width - 1)}
      \cup {[j \in 0..(Width - 1) |-> IF j = k THEN 0 ELSE 1] : k \in 0..(Width - 2)}
      \cup {[j \in 0..(Width - 1) |-> j % 2], [j \in 0..(Width - 1) |-> (j + 1) % 2]}

InitZigzag ==
    /\ plan = <<>>
    /\ row_count = 0
    /\ \E v \in ZigzagValues, p \in 0..MaxPad :
          /\ arg = [v |-> v, p |-> p]
          /\ block = [j \in 1..p |-> 0] \o EncodeLong(v)
    /\ beyond = <<>>
    /\ call = <<>>
    /\ ret = <<>>

ReadLongCall ==
    /\ ret = <<>>
    /\ ret' = <<_read_long(arg.p, block)>>
    /\ UNCHANGED <<Inputs, call, arg>>

NextZigzag == ReadLongCall

SpecZigzag == InitZigzag /\ [][NextZigzag]_vars

(***************************************************************************)
(* generate_avro_to_arrow_parser: the decoder is generated from the Avro   *)
(* schema, then run on a message.  A field's type declaration is a union   *)
(* (a list of branch names) or a bare type name (a string).                *)
(***************************************************************************)
Union(branches) == [union |-> TRUE, branches |-> branches]

Bare(name) == [union |-> FALSE, branches |-> <<name>>]

\* name[1] of a bare type name: its second character
SecondChar(name) ==
    CASE name = "long" -> "o"
      [] name = "string" -> "t"
      [] OTHER -> "?"

\* avro_field["type"][1]
TypeIndex1(type) ==
    IF type.union
      THEN IF Len(type.branches) >= 2
             THEN [ok |-> TRUE, value |-> type.branches[2]]
             ELSE [ok |-> FALSE, value |-> "IndexError"]
      ELSE [ok |-> TRUE, value |-> SecondChar(type.branches[1])]

\* "Got unexpected type: {}.".format(): a replacement field and no argument, so
\* the call raises IndexError before the message exists
FormatNoArgs == [ok |-> FALSE, value |-> "IndexError"]

\* raise NotImplementedError(message): the message is evaluated first
RaiseNotImplemented(message) ==
    IF message.ok THEN [ok |-> FALSE, value |-> "NotImplementedError"] ELSE message

\* _generate_data_array: ok with the kind of array built, or the exception
_generate_data_array(type) ==
    LET avro_type == TypeIndex1(type)
    IN IF ~avro_type.ok THEN avro_type
       ELSE IF avro_type.value \in {"long", "double", "boolean"} THEN avro_type
       ELSE RaiseNotImplemented(FormatNoArgs)

\* _generate_populate_data_array: ok with the kind of reader called, or the
\* exception
_generate_populate_data_array(type) ==
    LET avro_type == TypeIndex1(type)
    IN IF ~avro_type.ok THEN avro_type
       ELSE IF avro_type.value \in {"long", "double", "boolean"} THEN avro_type
       ELSE RaiseNotImplemented(FormatNoArgs)

\* _generate_message_to_buffers: the first loop builds the arrays, the second
\* the per-field code; the first exception raised leaves the function
_generate_message_to_buffers(avro_schema) ==
    LET fields == 1..Len(avro_schema)
        arrays == [k \in fields |-> _generate_data_array(avro_schema[k])]
        code == [k \in fields |-> _generate_populate_data_array(avro_schema[k])]
        FirstBad(res) == CHOOSE k \in fields :
                            /\ ~res[k].ok
                            /\ \A h \in fields : h < k => res[h].ok
    IN IF \E k \in fields : ~arrays[k].ok
         THEN [ok |-> FALSE, raised |-> arrays[FirstBad(arrays)].value, plan |-> <<>>]
       ELSE IF \E k \in fields : ~code[k].ok
         THEN [ok |-> FALSE, raised |-> code[FirstBad(code)].value, plan |-> <<>>]
       ELSE [ok |-> TRUE, raised |-> "", plan |-> [k \in fields |-> code[k].value]]

generate_avro_to_arrow_parser(avro_schema) == _generate_message_to_buffers(avro_schema)

\* parser = generate_avro_to_arrow_parser(avro_schema)
GenerateParser ==
    /\ ret = <<>>
    /\ ret' = <<generate_avro_to_arrow_parser(arg.avro_schema)>>
    /\ plan' = ret'[1].plan
    /\ UNCHANGED <<row_count, block, beyond, call, arg>>

\* parser(message): message_to_table calls message_to_buffers(row_count, block)
CallParser ==
    /\ ret # <<>>
    /\ ret[1].ok
    /\ call = <<>>
    /\ call' = <<NewCall(plan, row_count)>>
    /\ UNCHANGED <<Inputs, arg, ret>>

\* int_col, float_col, bool_col = message_to_buffers(row_count, block): the
\* unpacking raises ValueError unless there are three columns
MessageToTable(c) ==
    /\ call[c].pc = "returned"
    /\ call' = [call EXCEPT ![c].pc = IF Len(plan) = 3 THEN "table" ELSE "ValueError"]
    /\ UNCHANGED <<Inputs, arg, ret>>

NextBuild ==
    \/ GenerateParser
    \/ CallParser
    \/ \E c \in DOMAIN call : RotateRow(c)
    \/ \E c \in DOMAIN call : FieldLong(c)
    \/ \E c \in DOMAIN call : FieldDouble(c)
    \/ \E c \in DOMAIN call : FieldBoolean(c)
    \/ \E c \in DOMAIN call : Return(c)
    \/ \E c \in DOMAIN call : MessageToTable(c)

MaxFields == 3

\* nullable long, double, boolean and string; a union whose first branch is not
\* null; a union with null last; a union of one branch; a bare type name
TypeDecls ==
    {Union(<<"null", "long">>), Union(<<"null", "double">>), Union(<<"null", "boolean">>),
     Union(<<"null", "string">>), Union(<<"string", "long">>), Union(<<"long", "null">>),
     Union(<<"null">>), Bare("long")}

BuildBlocks == SeqsUpTo(FuzzBytes, MaxFields)

InitBuild ==
    /\ \E schema \in SeqsUpTo(TypeDecls, MaxFields) : arg = [avro_schema |-> schema]
    /\ plan = <<>>
    /\ row_count \in 0..1
    /\ block \in BuildBlocks
    /\ beyond = <<>>
    /\ call = <<>>
    /\ ret = <<>>

SpecBuild == InitBuild /\ [][NextBuild]_vars

(***************************************************************************)
(* Properties.                                                             *)
(***************************************************************************)
\* The decode function of call s has returned its buffers.
Returned(s) == s.pc \in {"returned", "copy", "done"}

\* Bit (r mod 8) of byte (r div 8) of a bit array, r counted from 0
ArrayBit(array, r) == Bit(array[(r \div 8) + 1], r % 8)

Primitive(k) == plan[k] \in {"long", "double", "boolean"}

\* C1: whenever a read of the decode went past the end of the block, the call
\* ends in an error and returns no buffers.
TruncatedInputFatal ==
    \A c \in DOMAIN call : call[c].oob => ~Returned(call[c])

\* C2: after a successful decode, validity bit r of every long, double and
\* boolean column is 1 exactly when the union tag read for row r was nonzero.
ValidityMatchesTags ==
    \A c \in DOMAIN call :
        Returned(call[c]) =>
            \A k \in 1..Len(plan) :
                Primitive(k) =>
                    \A r \in 0..(row_count - 1) :
                        (ArrayBit(call[c].nullmask[k], r) = 1) <=> (call[c].tags[k][r + 1] # 0)

\* a returned decode with a null row and a row whose tag is neither 0 nor 1
ValidityMatchesTagsWitness ==
    \E c \in DOMAIN call :
        /\ Returned(call[c])
        /\ \E k \in 1..Len(plan) :
              /\ Primitive(k)
              /\ \E r1, r2 \in 1..row_count :
                    call[c].tags[k][r1] = 0 /\ call[c].tags[k][r2] \notin {0, 1}

\* C3: after a successful decode, validity bit r of every string column is 1
\* exactly when the union tag read for row r was nonzero.
StringValidityMatchesTags ==
    \A c \in DOMAIN call :
        Returned(call[c]) =>
            \A k \in StringColumns :
                \A r \in 0..(row_count - 1) :
                    (ArrayBit(call[c].nullmask[k], r) = 1) <=> (call[c].tags[k][r + 1] # 0)

\* C4: in every state every validity bitmap and every bit-packed boolean data
\* buffer is ceil(row_count / 8) bytes long and its bits from row_count on are 0.
BitArrays(s) ==
    {s.nullmask[k] : k \in 1..Len(plan)}
      \cup {s.data[k] : k \in {h \in 1..Len(plan) : plan[h] = "boolean"}}

BitmapShape ==
    \A c \in DOMAIN call :
        \A array \in BitArrays(call[c]) :
            /\ Len(array) = (row_count + 7) \div 8
            /\ \A r \in row_count..(8 * Len(array) - 1) : ArrayBit(array, r) = 0

\* a returned decode of ten rows whose rows 8 and 9 are present and true
BitmapShapeWitness ==
    \E c \in DOMAIN call :
        /\ Returned(call[c])
        /\ row_count = 10
        /\ plan = <<"boolean">>
        /\ call[c].nullmask[1][2] = 3
        /\ call[c].data[1][2] = 3

\* C5: the offsets of every string column returned: row_count + 1 entries,
\* the first 0, never decreasing, equal across a null row, advanced by the
\* length across a present row, the last one the length of the data buffer.
OffsetsWellFormed ==
    \A c \in DOMAIN call :
        Returned(call[c]) =>
            \A k \in StringColumns :
                LET offsets == call[c].offsets[k]
                IN /\ Len(offsets) = row_count + 1
                   /\ offsets[1] = 0
                   /\ \A r \in 1..row_count :
                         /\ offsets[r] <= offsets[r + 1]
                         /\ call[c].tags[k][r] = 0 => offsets[r + 1] = offsets[r]
                         /\ call[c].tags[k][r] # 0 =>
                               offsets[r + 1] = offsets[r] + call[c].lens[k][r]
                   /\ call[c].pc = "done" => offsets[row_count + 1] = Len(call[c].bytes[k])

\* C6: once a negative byte-run length has been decoded the call has ended in
\* an error: it is not decoding on, and has returned nothing.
NegativeLengthFatal ==
    \A c \in DOMAIN call :
        (\E k \in StringColumns : \E r \in DOMAIN call[c].lens[k] : call[c].lens[k][r] < 0)
            => call[c].pc = "fault"

\* C7: _read_long at position p of the zigzag varint of v returns v and the
\* position p + the number of bytes of the varint.
ZigzagRoundTrip ==
    ret # <<>> =>
        /\ ret[1].ok
        /\ ret[1].value = arg.v
        /\ ret[1].position = arg.p + Len(EncodeLong(arg.v))

\* C8: the three-row block (5, "hi"), (null, null), (-3, "") over the plan
\* long, string decodes to long validity 1,0,1 and data 5, _, -3, and to string
\* validity 1,0,1, offsets 0,2,2,2 and data "hi".
EndToEnd ==
    \A c \in DOMAIN call :
        (/\ plan = <<"long", "string">>
         /\ row_count = 3
         /\ block = <<2, 10, 2, 4, 104, 105, 0, 0, 2, 5, 2, 0>>
         /\ Returned(call[c]))
        => /\ call[c].nullmask[1] = <<5>>
           /\ call[c].data[1][1] = 5
           /\ call[c].data[1][3] = -3
           /\ call[c].nullmask[2] = <<5>>
           /\ call[c].offsets[2] = <<0, 2, 2, 2>>
           /\ call[c].pc = "done" => call[c].bytes[2] = <<104, 105>>

\* C9: after the copy pass the destination bytes of every row are the row's
\* bytes of the block, and the destination ranges of two rows do not overlap
\* (so the copies can run in any order).
CopiedBytesMatch ==
    \A c \in DOMAIN call :
        call[c].pc = "done" =>
            \A k \in StringColumns :
                LET offsets == call[c].offsets[k]
                    start(r) == call[c].input_offsets[k][2 * r - 1]
                IN /\ \A r \in call[c].recorded[k] :
                         \A j \in 1..call[c].lens[k][r] :
                            /\ offsets[r] + j \in DOMAIN call[c].bytes[k]
                            /\ start(r) + j \in DOMAIN block
                            /\ call[c].bytes[k][offsets[r] + j] = block[start(r) + j]
                   /\ \A r1, r2 \in 1..row_count :
                         r1 < r2 =>
                            \/ offsets[r1 + 1] <= offsets[r2]
                            \/ offsets[r2 + 1] <= offsets[r1]

\* C10: two calls on the same block return identical validity bitmaps, data
\* arrays and offsets.
Output(s) == [nullmask |-> s.nullmask, data |-> s.data, offsets |-> s.offsets]

SameOutputTwice ==
    (/\ DOMAIN call = 1..2
     /\ Returned(call[1])
     /\ Returned(call[2]))
    => Output(call[1]) = Output(call[2])

\* C11: a schema with a field whose type declaration is not a nullable long,
\* double or boolean makes generate_avro_to_arrow_parser fail with the
\* unsupported-type error (NotImplementedError), and no decoder is ever run for
\* it; a decoder that was built never ends in that error.
Supported(type) ==
    /\ type.union
    /\ Len(type.branches) = 2
    /\ type.branches[1] = "null"
    /\ type.branches[2] \in {"long", "double", "boolean"}

UnsupportedTypeRejected ==
    ret # <<>> =>
        /\ (\E k \in DOMAIN arg.avro_schema : ~Supported(arg.avro_schema[k]))
              => (~ret[1].ok /\ ret[1].raised = "NotImplementedError" /\ call = <<>>)
        /\ \A c \in DOMAIN call : call[c].pc # "NotImplementedError"

\* C12: every field step of a decode that goes on leaves the cursor strictly
\* after the position it started at.
CursorNeverBacktracks ==
    [][\A c \in DOMAIN call :
          (/\ call[c].pc = "field"
           /\ call'[c] # call[c]
           /\ call'[c].pc # "fault")
          => call'[c].position > call[c].position]_vars

\* C13: the marker is 0 before the first row; while the fields of row i are
\* processed it is 2^(i mod 8), the same for every field of the row, having
\* been rotated once at the start of the row (from 0x80 back to 0x01 after
\* eight rows); between rows it is still the marker of the row just decoded.
Marker(i) == 2 ^ (i % 8)

RotatingMarker ==
    \A c \in DOMAIN call :
        LET s == call[c]
        IN /\ s.f >= 1 => s.nullbit = Marker(s.i)
           /\ s.f = 0 => s.nullbit = IF s.i = 0 THEN 0 ELSE Marker(s.i - 1)

\* the second column of the ninth row is being decoded, the marker back at 0x01
RotatingMarkerWitness ==
    \E c \in DOMAIN call :
        /\ call[c].pc = "field"
        /\ call[c].i = 8
        /\ call[c].f = 2
        /\ call[c].nullbit = 1
        /\ call[c].nullmask[1] = <<255, 1>>

\* C14: after a successful decode, bit r of the data of every boolean column is
\* 1 exactly when the tag of row r was nonzero and the value byte read was
\* nonzero; a present value took one byte of the block, a null none; and the
\* bits from row_count on are 0, so no row wrote a bit other than its own.
BooleanColumns == {k \in 1..Len(plan) : plan[k] = "boolean"}

BooleanBits ==
    \A c \in DOMAIN call :
        Returned(call[c]) =>
            \A k \in BooleanColumns :
                /\ \A r \in 0..(row_count - 1) :
                      LET present == call[c].tags[k][r + 1] # 0
                          read == call[c].bools[k][r + 1]
                      IN /\ (ArrayBit(call[c].data[k], r) = 1) <=> (present /\ read.byte # 0)
                         /\ read.consumed = IF present THEN 1 ELSE 0
                /\ \A r \in row_count..(8 * Len(call[c].data[k]) - 1) :
                      ArrayBit(call[c].data[k], r) = 0

\* a returned decode that read inside the block only, with a row whose value
\* byte is 2 (true) and a present row whose value byte is 0 (false)
BooleanBitsWitness ==
    \E c \in DOMAIN call :
        /\ Returned(call[c])
        /\ ~call[c].oob
        /\ \E k \in BooleanColumns :
              \E r1, r2 \in 1..row_count :
                 /\ call[c].tags[k][r1] # 0
                 /\ call[c].bools[k][r1].byte = 2
                 /\ ArrayBit(call[c].data[k], r1 - 1) = 1
                 /\ call[c].tags[k][r2] # 0
                 /\ call[c].bools[k][r2].byte = 0
                 /\ ArrayBit(call[c].data[k], r2 - 1) = 0
====
